---- MODULE Spec2Model ----
(***************************************************************************)
(* Phase-based task runner (scripts/task-runner-v2.py): the task document  *)
(* in the persistence store, one invocation of main() after another, the   *)
(* execution driver run_agent_interactive(), the run record written by     *)
(* RunExport.save(), and the aggregator summarize_runs().                  *)
(*                                                                         *)
(* Text is modelled as a sequence of tokens.  The tokens are the literal    *)
(* pieces the driver looks for ("PHASE ", " COMPLETE", "BLOCKED:"), the     *)
(* decimal digits, the newline, the blank and one other character "x".      *)
(***************************************************************************)
EXTENDS Integers, Sequences, FiniteSets, TLC

VARIABLES
    file,            \* the task document held by the persistence store
    pc,              \* position of main(): idle, pick, agent, done, save, exit,
                     \* crashed; or of a function followed on its own
    args,            \* the command line of the running invocation
    parsed,          \* parse_tasks_file(tasks_file)['phases'] of this invocation
    phase_num,       \* main's phase_num
    idx,             \* position in the pick loop / the done loop
    calls,           \* the run_cru mutation calls issued by this invocation
    printed,         \* the status line main() printed before returning
    dpc,             \* position of run_agent_interactive()
    proc,            \* the external agent process: none, running, exited
    capture,         \* content of the transient capture file
    capture_exists,  \* whether the transient capture file exists
    returncode,      \* process.returncode
    output,          \* run_agent_interactive's local `output`
    status,          \* the outcome returned by run_agent_interactive
    reason,          \* the reason returned by run_agent_interactive
    launches,        \* number of agent processes started by this invocation
    read_back,       \* whether the capture file has been read back (line 486)
    unlinked,        \* how os.unlink of line 508 ended: none, ok, failed
    interrupted,     \* whether a KeyboardInterrupt arrived during the driver call
    phase_status,    \* main's (completed, pending, in_progress), line 565
    snapshot,        \* RunExport.tasks_file_snapshot, lines 611 and 656
    saved,           \* the artifacts RunExport.save has written
    log,             \* the lines main() printed about single mutation calls
    fault,           \* the exception that left main() uncaught, "" if none
    metrics,         \* main's metrics, the RunMetrics of lines 586-596
    runs,            \* summarize_runs: the records loaded from the directory
    report,          \* summarize_runs: what it printed
    locals           \* the local variables of the function followed on its
                     \* own, by name; none while main() is followed

vars == <<file, pc, args, parsed, phase_num, idx, calls, printed, dpc, proc,
          capture, capture_exists, returncode, output, status, reason, launches,
          read_back, unlinked, interrupted, phase_status, snapshot, saved, log,
          fault, metrics, runs, report, locals>>

driverVars == <<dpc, proc, capture, capture_exists, returncode, output,
                status, reason, launches, read_back, unlinked, interrupted>>

\* what main() keeps for the run record, and the state of summarize_runs
recordVars == <<phase_status, snapshot, saved, log, fault, metrics>>

summaryVars == <<runs, report>>

\* the locals of the functions that are followed on their own
unitVars == <<locals>>

\* parse_tasks_file: content[3:end], the leading metadata block
block == locals.block
\* parse_tasks_file's frontmatter, parsed['frontmatter']
frontmatter == locals.frontmatter
\* main's title, line 526
title == locals.title
\* generate_phase_prompt's verify_command, line 373
verify_command == locals.verify_command
\* generate_phase_prompt's tdd_enabled, line 374
tdd_enabled == locals.tdd_enabled

\* read_context_files: the listed files, as the disk has them
context_files == locals.context_files
\* read_context_files' parts
parts == locals.parts

\* parse_tasks_file's lines = content.split('\n')
lines == locals.lines
\* parse_tasks_file's current_phase, by its number
current_phase == locals.current_phase
\* parse_tasks_file's current_section
current_section == locals.current_section
\* parse_tasks_file's phases
phases == locals.phases
\* what each line passed so far was taken as
classes == locals.classes

\* task-runner.py main's task_id
task_id == locals.task_id
\* task-runner.py main's completed
completed == locals.completed
\* the outcomes run_agent_interactive returned this session
outcomes == locals.outcomes

(***************************************************************************)
(* Bounds of the model.                                                    *)
(***************************************************************************)
\* phase numbers of a document range over 0..MaxPhase
MaxPhase == 1
\* number of task lines in a document
MaxTasks == 2
\* number of tokens the agent writes
MaxOut == 4
\* number of tasks of the phase handed to get_phase_status on its own
MaxListed == 4
\* number of records in the directory handed to summarize_runs
MaxRuns == 3
\* number of lines of the leading metadata block
MaxBlock == 3
\* number of files listed under context_files
MaxFiles == 2
\* number of lines of the document body handed to the line loop
MaxLines == 4

\* the character ceiling of an inlined context file, line 342
TruncateAt == 5000

\* python's None, for get_next_phase's result and for an absent --phase
NoPhase == -1

(***************************************************************************)
(* Text.                                                                   *)
(***************************************************************************)
NL == "\n"
SP == " "
TokPhase == "PHASE "
TokComplete == " COMPLETE"
TokBlocked == "BLOCKED:"

Digits == <<"0", "1", "2", "3", "4", "5", "6", "7", "8", "9">>

\* str(n) of a python int
RECURSIVE Str(_)
Str(n) ==
    IF n < 0 THEN <<"-">> \o Str(0 - n)
    ELSE IF n < 10 THEN <<Digits[n + 1]>>
    ELSE Str(n \div 10) \o <<Digits[(n % 10) + 1]>>

\* f"PHASE {phase_num} COMPLETE"
Marker(n) == <<TokPhase>> \o Str(n) \o <<TokComplete>>

\* python's `m in s` on strings
Contains(s, m) ==
    \E i \in 1..(Len(s) - Len(m) + 1) : SubSeq(s, i, i + Len(m) - 1) = m

\* the start positions of the lines of s.split("\n")
LineStarts(s) == {1} \cup {i + 1 : i \in {j \in 1..Len(s) : s[j] = NL}}

\* the position after the last token of the line starting at i
LineEnd(s, i) ==
    IF \E j \in i..Len(s) : s[j] = NL
    THEN CHOOSE j \in i..Len(s) : s[j] = NL /\ \A k \in i..(j - 1) : s[k] # NL
    ELSE Len(s) + 1

\* the line of s.split("\n") that starts at i
LineAt(s, i) == SubSeq(s, i, LineEnd(s, i) - 1)

\* line.startswith("BLOCKED:")
StartsWithBlocked(line) == Len(line) >= 1 /\ line[1] = TokBlocked

\* the start positions of the lines that begin with "BLOCKED:"
BlockedStarts(s) == {i \in LineStarts(s) : StartsWithBlocked(LineAt(s, i))}

Whitespace == {SP, NL}

\* python's str.strip() (the blank is the whitespace of the token alphabet)
RECURSIVE Strip(_)
Strip(s) ==
    IF s = <<>> THEN s
    ELSE IF Head(s) \in Whitespace THEN Strip(Tail(s))
    ELSE IF s[Len(s)] \in Whitespace THEN Strip(SubSeq(s, 1, Len(s) - 1))
    ELSE s

\* line[8:], the line without its "BLOCKED:" prefix
AfterPrefix(line) == Tail(line)

ReasonDefault == <<"Agent finished without PHASE COMPLETE marker">>
ReasonInterrupted == <<"Interrupted by user">>
ReasonException == <<"str(e)">>
ReasonExit(rc) == <<"Agent exited with code ">> \o Str(rc)

(***************************************************************************)
(* The classification of run_agent_interactive, lines 488-500.             *)
(***************************************************************************)
FirstBlockedSkipsStrip(out) ==
    LET i == CHOOSE k \in BlockedStarts(out) : \A m \in BlockedStarts(out) : k <= m
    IN  AfterPrefix(LineAt(out, i))

FirstBlockedReason(out) ==
    LET i == CHOOSE k \in BlockedStarts(out) : \A m \in BlockedStarts(out) : k <= m
    IN  Strip(AfterPrefix(LineAt(out, i)))

ClassifyBlockedFirst(out, n, rc) ==
    IF BlockedStarts(out) # {}
    THEN [status |-> "blocked", reason |-> FirstBlockedReason(out)]
    ELSE IF Contains(out, Marker(n))
    THEN [status |-> "complete", reason |-> <<>>]
    ELSE IF rc # 0
    THEN [status |-> "error", reason |-> ReasonExit(rc)]
    ELSE [status |-> "blocked", reason |-> ReasonDefault]

ClassifyIgnoresExitCode(out, n, rc) ==
    IF Contains(out, Marker(n))
    THEN [status |-> "complete", reason |-> <<>>]
    ELSE IF BlockedStarts(out) # {}
    THEN [status |-> "blocked", reason |-> FirstBlockedReason(out)]
    ELSE [status |-> "blocked", reason |-> ReasonDefault]

Classify(out, n, rc) ==
    IF Contains(out, Marker(n))
    THEN [status |-> "complete", reason |-> <<>>]
    ELSE IF BlockedStarts(out) # {}
    THEN [status |-> "blocked", reason |-> FirstBlockedReason(out)]
    ELSE IF rc # 0
    THEN [status |-> "error", reason |-> ReasonExit(rc)]
    ELSE [status |-> "blocked", reason |-> ReasonDefault]

(***************************************************************************)
(* The task document.  A document maps the phase numbers of its phase      *)
(* headers to the tasks below each header, in document order.              *)
(***************************************************************************)
PhaseNums == 0..MaxPhase
Ids == {"", "a", "b"}
Statuses == {"pending", "in_progress", "done"}
Task == [id : Ids, status : Statuses]

\* the task lines of a document in document order, each with its phase
\* (identifiers are named in order of first use: "b" only after an "a")
FlatDocs(n) ==
    {f \in [1..n -> PhaseNums \X Task] :
        /\ \A i \in 1..(n - 1) : f[i][1] <= f[i + 1][1]
        /\ \A i \in 1..n : f[i][2].id = "b" =>
              \E j \in 1..(i - 1) : f[j][2].id = "a"}

TasksOf(f, p) ==
    LET own == SelectSeq(f, LAMBDA e : e[1] = p)
    IN  [i \in 1..Len(own) |-> own[i][2]]

DocOf(S, f) == [p \in S |-> TasksOf(f, p)]

Docs ==
    UNION {UNION {{DocOf(S, f) :
                     S \in {T \in SUBSET PhaseNums :
                               \A i \in 1..n : f[i][1] \in T}} :
                  f \in FlatDocs(n)} :
           n \in 0..MaxTasks}

(***************************************************************************)
(* Phase Selector, lines 290-305.                                          *)
(***************************************************************************)
\* a get_phase_status that takes every task that is not done as pending
GetPhaseStatusNotDoneIsPending(tasks) ==
    [completed   |-> SelectSeq(tasks, LAMBDA t : t.status = "done"),
     pending     |-> SelectSeq(tasks, LAMBDA t : t.status # "done"),
     in_progress |-> SelectSeq(tasks, LAMBDA t : t.status = "in_progress")]

\* get_phase_status: (completed, pending, in_progress)
get_phase_status(tasks) ==
    [completed   |-> SelectSeq(tasks, LAMBDA t : t.status = "done"),
     pending     |-> SelectSeq(tasks, LAMBDA t : t.status = "pending"),
     in_progress |-> SelectSeq(tasks, LAMBDA t : t.status = "in_progress")]

\* sorted(d.keys())
RECURSIVE SortedAsc(_)
SortedAsc(S) ==
    IF S = {} THEN <<>>
    ELSE LET m == CHOOSE x \in S : \A y \in S : x <= y
         IN  <<m>> \o SortedAsc(S \ {m})

RECURSIVE SortedDesc(_)
SortedDesc(S) ==
    IF S = {} THEN <<>>
    ELSE LET m == CHOOSE x \in S : \A y \in S : x >= y
         IN  <<m>> \o SortedDesc(S \ {m})

SortedKeys(d) == SortedAsc(DOMAIN d)

\* `if pending or in_progress`
HasWork(tasks) ==
    \/ get_phase_status(tasks).pending # <<>>
    \/ get_phase_status(tasks).in_progress # <<>>

\* the for loop of get_next_phase over the keys that are left
RECURSIVE ScanPhases(_, _)
ScanPhases(d, keys) ==
    IF keys = <<>> THEN NoPhase
    ELSE IF HasWork(d[Head(keys)]) THEN Head(keys)
    ELSE ScanPhases(d, Tail(keys))

\* variants of get_next_phase with a slip in the scan
RECURSIVE ScanPendingOnly(_, _)
ScanPendingOnly(d, keys) ==
    IF keys = <<>> THEN NoPhase
    ELSE IF get_phase_status(d[Head(keys)]).pending # <<>> THEN Head(keys)
    ELSE ScanPendingOnly(d, Tail(keys))

GetNextPhasePendingOnly(d) == ScanPendingOnly(d, SortedKeys(d))

GetNextPhaseDescending(d) == ScanPhases(d, SortedDesc(DOMAIN d))

get_next_phase(d) == ScanPhases(d, SortedKeys(d))

(***************************************************************************)
(* The persistence store: `cru tasks --file F pick ID` and `... done ID`.  *)
(* A call is keyed by the task identifier and acts on one task bearing it. *)
(***************************************************************************)
\* the places (phase, position) of the tasks of document d bearing id
Bearing(d, id) ==
    {pl \in PhaseNums \X (1..MaxTasks + 1) :
        /\ pl[1] \in DOMAIN d
        /\ pl[2] \in 1..Len(d[pl[1]])
        /\ d[pl[1]][pl[2]].id = id}

SetStatus(d, pl, st) == [d EXCEPT ![pl[1]][pl[2]].status = st]

\* mark-picked: pending -> in_progress; the documents the call may leave
StorePick(d, id) ==
    {SetStatus(d, pl, "in_progress") :
        pl \in {q \in Bearing(d, id) : d[q[1]][q[2]].status = "pending"}}

\* mark-done: any -> done
StoreDone(d, id) ==
    {SetStatus(d, pl, "done") : pl \in Bearing(d, id)}

(***************************************************************************)
(* main(), lines 513-661.                                                  *)
(***************************************************************************)
PhaseArgs == {NoPhase} \cup PhaseNums

NoArgs == [phase |-> NoPhase, dry_run |-> FALSE, export |-> FALSE]

\* main's (completed, pending, in_progress) before line 565 assigns them
NoStatus == [completed |-> <<>>, pending |-> <<>>, in_progress |-> <<>>]

\* the default of RunExport.tasks_file_snapshot, line 94: the empty text
NoSnapshot == <<>>

\* main's metrics before line 586 creates the record
NoMetrics ==
    [tasks_total |-> -1, tasks_pending |-> -1, tasks_completed_before |-> -1,
     previous_phases_tasks |-> -1]

\* a count of the earlier phases that goes on through the phase being run
RECURSIVE PrevTasksThroughOwnPhase(_, _, _)
PrevTasksThroughOwnPhase(d, keys, n) ==
    IF keys = <<>> \/ Head(keys) > n THEN 0
    ELSE Len(get_phase_status(d[Head(keys)]).completed)
             + PrevTasksThroughOwnPhase(d, Tail(keys), n)

\* lines 567-573: prev_tasks, the loop over sorted(parsed['phases'].keys())
\* with its `if num >= phase_num: break`
RECURSIVE PrevTasks(_, _, _)
PrevTasks(d, keys, n) ==
    IF keys = <<>> \/ Head(keys) >= n THEN 0
    ELSE Len(get_phase_status(d[Head(keys)]).completed)
             + PrevTasks(d, Tail(keys), n)

\* a record whose tasks_pending leaves out the tasks in progress
RunMetricsPendingOnly(d, n) ==
    [tasks_total |-> Len(d[n]),
     tasks_pending |-> Len(get_phase_status(d[n]).pending),
     tasks_completed_before |-> Len(get_phase_status(d[n]).completed),
     previous_phases_tasks |-> PrevTasks(d, SortedKeys(d), n)]

\* lines 586-596: the RunMetrics of a cycle on phase n of document d
RunMetrics(d, n) ==
    [tasks_total |-> Len(d[n]),
     tasks_pending |-> Len(get_phase_status(d[n]).pending)
                          + Len(get_phase_status(d[n]).in_progress),
     tasks_completed_before |-> Len(get_phase_status(d[n]).completed),
     previous_phases_tasks |-> PrevTasks(d, SortedKeys(d), n)]

\* the exceptions that leave main() uncaught, by where they are raised
FaultInterrupt == "KeyboardInterrupt"
FaultRunCru == "OSError in run_cru"
FaultSave == "OSError in RunExport.save"

\* `if args.phase:` ... `else: get_next_phase(parsed)`, lines 551-554
SelectPhase(a, d) ==
    IF a.phase # NoPhase /\ a.phase # 0 THEN a.phase ELSE get_next_phase(d)

\* the tasks the pick loop walks, line 618
PickListAll(tasks) ==
    get_phase_status(tasks).completed \o get_phase_status(tasks).pending
        \o get_phase_status(tasks).in_progress

PickList(tasks) == get_phase_status(tasks).pending

\* a done loop that forgets the tasks already in progress
DoneListPendingOnly(tasks) == get_phase_status(tasks).pending

\* the tasks the done loop walks, line 639
DoneList(tasks) ==
    get_phase_status(tasks).pending \o get_phase_status(tasks).in_progress

\* `if status == "complete":`, line 637
MarksDoneUnlessError(st) == st # "error"

MarksDone(st) == st = "complete"

\* `if args.dry_run:` ... `return`, lines 598-615
StopsForDryRunNever(a) == FALSE

StopsForDryRun(a) == a.dry_run

(***************************************************************************)
(* The leading metadata block, lines 197-207, and its readers, lines 526   *)
(* and 370-374.  The block is the text between the two "---".              *)
(***************************************************************************)
\* the lines of a block: `key: value` entries, a `- item` entry, the plain
\* scalars `word` and `0`, the line `a: b: c` (two mapping indicators), and
\* the blank line
BlockLines ==
    {[form |-> "entry", key |-> "title", value |-> "T"],
     [form |-> "entry", key |-> "verify", value |-> "make"],
     [form |-> "entry", key |-> "tdd", value |-> "true"],
     [form |-> "item", key |-> "", value |-> "item"],
     [form |-> "plain", key |-> "", value |-> "word"],
     [form |-> "plain", key |-> "", value |-> "0"],
     [form |-> "broken", key |-> "", value |-> ""],
     [form |-> "blank", key |-> "", value |-> ""]}

\* `{}`
EmptyDict == [kind |-> "dict", entries |-> [k \in {} |-> ""]]

\* yaml.safe_load(block): the loaded value (None, a dict, a list, a str, an
\* int), or an exception.  A block of `key: value` lines is a mapping (the
\* last line of a key wins), a block of `- item` lines a list, a block that
\* begins with a plain word a scalar that folds the lines after it; a line
\* with two mapping indicators, and a line that leaves the construct the
\* block began with, are errors.
SafeLoad(b) ==
    LET ls == SelectSeq(b, LAMBDA l : l.form # "blank")
        rest == Tail(ls)
        Later(S) == \A i \in 1..Len(rest) : rest[i].form \in S
        keys == {ls[i].key : i \in 1..Len(ls)}
        Last(k) == LET own == SelectSeq(ls, LAMBDA l : l.key = k)
                   IN  own[Len(own)].value
        Raise == [raised |-> TRUE, value |-> [kind |-> "none"]]
        Value(v) == [raised |-> FALSE, value |-> v]
    IN  IF \E i \in 1..Len(ls) : ls[i].form = "broken" THEN Raise
        ELSE IF ls = <<>> THEN Value([kind |-> "none"])
        ELSE IF Head(ls).form = "entry"
        THEN IF Later({"entry"})
             THEN Value([kind |-> "dict", entries |-> [k \in keys |-> Last(k)]])
             ELSE Raise
        ELSE IF Head(ls).form = "item"
        THEN IF Later({"item"}) THEN Value([kind |-> "list", len |-> Len(ls)])
                                ELSE Raise
        ELSE IF ~Later({"plain", "item"}) THEN Raise
        ELSE IF Len(ls) = 1 /\ Head(ls).value = "0"
        THEN Value([kind |-> "int", value |-> 0])
        ELSE Value([kind |-> "str", len |-> Len(ls)])

\* lines 202-205: `try: frontmatter = yaml.safe_load(...) or {}` `except: pass`
Loaded(b) ==
    LET v == SafeLoad(b).value
        truthy == CASE v.kind = "none" -> FALSE
                    [] v.kind = "dict" -> DOMAIN v.entries # {}
                    [] v.kind = "list" -> v.len > 0
                    [] v.kind = "str"  -> v.len > 0
                    [] v.kind = "int"  -> v.value # 0
    IN  IF SafeLoad(b).raised THEN EmptyDict
        ELSE IF truthy THEN v
        ELSE EmptyDict

\* frontmatter.get(key, default) of a dict
Get(fm, key, default) ==
    IF key \in DOMAIN fm.entries THEN fm.entries[key] ELSE default

\* no function is followed on its own
UnitsAtRest == locals = <<>>

\* the state of the invocation's locals before main() runs
Idle ==
    /\ pc = "idle"
    /\ args = NoArgs
    /\ parsed = <<>>
    /\ phase_num = NoPhase
    /\ idx = 0
    /\ calls = <<>>
    /\ printed = ""
    /\ dpc = "none"
    /\ proc = "none"
    /\ capture = <<>>
    /\ capture_exists = FALSE
    /\ returncode = 0
    /\ output = <<>>
    /\ status = ""
    /\ reason = <<>>
    /\ launches = 0
    /\ read_back = FALSE
    /\ unlinked = "none"
    /\ interrupted = FALSE
    /\ phase_status = NoStatus
    /\ snapshot = NoSnapshot
    /\ saved = {}
    /\ log = <<>>
    /\ fault = ""
    /\ metrics = NoMetrics
    /\ runs = <<>>
    /\ report = <<>>
    /\ UnitsAtRest

Init ==
    /\ file \in Docs
    /\ Idle

\* lines 525-615: parse, select the phase, and stop or go on to the pick loop;
\* a dry run with --export goes on to RunExport.save with the text read at 611
Start(ph, dry, ex) ==
    /\ pc = "idle"
    /\ LET a == [phase |-> ph, dry_run |-> dry, export |-> ex]
           d == file
           n == SelectPhase(a, d)
       IN  /\ args' = a
           /\ parsed' = d
           /\ phase_num' = n
           /\ phase_status' = IF n \in DOMAIN d THEN get_phase_status(d[n])
                                                ELSE NoStatus
           /\ metrics' = IF n \in DOMAIN d /\ HasWork(d[n]) THEN RunMetrics(d, n)
                                                             ELSE NoMetrics
           /\ IF n = NoPhase
              THEN pc' = "exit" /\ printed' = "All phases complete!"
                   /\ snapshot' = snapshot
              ELSE IF n \notin DOMAIN d
              THEN pc' = "exit" /\ printed' = "not found"
                   /\ snapshot' = snapshot
              ELSE IF ~HasWork(d[n])
              THEN pc' = "exit" /\ printed' = "already complete!"
                   /\ snapshot' = snapshot
              ELSE IF StopsForDryRun(a)
              THEN /\ printed' = "[DRY RUN]"
                   /\ IF a.export
                      THEN pc' = "save" /\ snapshot' = file
                      ELSE pc' = "exit" /\ snapshot' = snapshot
              ELSE pc' = "pick" /\ printed' = "" /\ snapshot' = snapshot
    /\ idx' = 1
    /\ UNCHANGED <<file, calls, saved, log, fault>>
    /\ UNCHANGED driverVars
    /\ UNCHANGED summaryVars
    /\ UNCHANGED unitVars

\* one turn of `for task in pending:`, lines 618-621, for a task with an id
PickCall ==
    /\ pc = "pick"
    /\ idx <= Len(PickList(parsed[phase_num]))
    /\ LET task == PickList(parsed[phase_num])[idx]
       IN  /\ task.id # ""
           /\ \/ /\ file' \in StorePick(file, task.id)
                 /\ calls' = Append(calls, [op |-> "pick", id |-> task.id, ok |-> TRUE])
              \/ /\ file' = file
                 /\ calls' = Append(calls, [op |-> "pick", id |-> task.id, ok |-> FALSE])
    /\ idx' = idx + 1
    /\ UNCHANGED <<pc, args, parsed, phase_num, printed>>
    /\ UNCHANGED driverVars
    /\ UNCHANGED recordVars
    /\ UNCHANGED summaryVars
    /\ UNCHANGED unitVars

\* one turn of the pick loop for a task without an id (`if task['id']`)
PickSkip ==
    /\ pc = "pick"
    /\ idx <= Len(PickList(parsed[phase_num]))
    /\ PickList(parsed[phase_num])[idx].id = ""
    /\ idx' = idx + 1
    /\ UNCHANGED <<file, pc, args, parsed, phase_num, calls, printed>>
    /\ UNCHANGED driverVars
    /\ UNCHANGED recordVars
    /\ UNCHANGED summaryVars
    /\ UNCHANGED unitVars

\* the pick loop is over: call run_agent_interactive, line 627
CallAgent ==
    /\ pc = "pick"
    /\ idx > Len(PickList(parsed[phase_num]))
    /\ pc' = "agent"
    /\ dpc' = "pre"
    /\ UNCHANGED <<file, args, parsed, phase_num, idx, calls, printed>>
    /\ UNCHANGED <<proc, capture, capture_exists, returncode, output, status,
                   reason, launches, read_back, unlinked, interrupted>>
    /\ UNCHANGED recordVars
    /\ UNCHANGED summaryVars
    /\ UNCHANGED unitVars

(***************************************************************************)
(* run_agent_interactive(), lines 452-510.                                 *)
(***************************************************************************)
ExitCodes == {0, 1, -9}

mainLocals == <<file, args, parsed, phase_num, idx, calls, printed,
                phase_status, snapshot, saved, log, fault, metrics, runs, report>>

\* lines 463-467: the transient capture file is created, output = ""
DriverPre ==
    /\ pc = "agent" /\ dpc = "pre"
    /\ capture_exists' = TRUE
    /\ capture' = <<>>
    /\ output' = <<>>
    /\ dpc' = "launch"
    /\ UNCHANGED <<pc, proc, returncode, status, reason, launches, read_back,
                   unlinked, interrupted>>
    /\ UNCHANGED mainLocals
    /\ UNCHANGED unitVars

\* lines 458-467 are outside the try block: a KeyboardInterrupt that arrives
\* there, before or after the capture file is created, leaves the function
\* and main() as an exception
DriverPreInterrupt ==
    /\ pc = "agent" /\ dpc = "pre"
    /\ interrupted' = TRUE
    /\ capture_exists' \in BOOLEAN
    /\ dpc' = "raised"
    /\ pc' = "crashed"
    /\ fault' = FaultInterrupt
    /\ UNCHANGED <<proc, capture, returncode, output, status, reason, launches,
                   read_back, unlinked>>
    /\ UNCHANGED <<file, args, parsed, phase_num, idx, calls, printed>>
    /\ UNCHANGED <<phase_status, snapshot, saved, log, metrics>>
    /\ UNCHANGED summaryVars
    /\ UNCHANGED unitVars

\* lines 477-483: subprocess.Popen starts the agent
DriverLaunch ==
    /\ pc = "agent" /\ dpc = "launch"
    /\ proc' = "running"
    /\ launches' = launches + 1
    /\ dpc' = "wait"
    /\ UNCHANGED <<pc, capture, capture_exists, returncode, output, status, reason,
                   read_back, unlinked, interrupted>>
    /\ UNCHANGED mainLocals
    /\ UNCHANGED unitVars

\* lines 477-486 and 504-505: open or Popen raises, or reading the capture
\* file back raises: `except Exception`
DriverRaises ==
    /\ pc = "agent" /\ dpc \in {"launch", "read"}
    /\ status' = "error"
    /\ reason' = ReasonException
    /\ dpc' = "finally"
    /\ UNCHANGED <<pc, proc, capture, capture_exists, returncode, output, launches,
                   read_back, unlinked, interrupted>>
    /\ UNCHANGED mainLocals
    /\ UNCHANGED unitVars

\* the agent process writes its output to the capture file and exits;
\* process.wait() of line 484 returns
AgentExits(outs, codes) ==
    /\ pc = "agent" /\ dpc = "wait" /\ proc = "running"
    /\ \E o \in outs, rc \in codes :
          /\ capture' = o
          /\ returncode' = rc
    /\ proc' = "exited"
    /\ dpc' = "read"
    /\ UNCHANGED <<pc, capture_exists, output, status, reason, launches, read_back,
                   unlinked, interrupted>>
    /\ UNCHANGED mainLocals
    /\ UNCHANGED unitVars

\* lines 486-500: read the capture file back and classify
DriverClassify ==
    /\ pc = "agent" /\ dpc = "read"
    /\ output' = capture
    /\ read_back' = TRUE
    /\ LET r == Classify(capture, phase_num, returncode)
       IN  status' = r.status /\ reason' = r.reason
    /\ dpc' = "finally"
    /\ UNCHANGED <<pc, proc, capture, capture_exists, returncode, launches,
                   unlinked, interrupted>>
    /\ UNCHANGED mainLocals
    /\ UNCHANGED unitVars

\* lines 502-503: KeyboardInterrupt inside the try block
DriverInterrupt ==
    /\ pc = "agent" /\ dpc \in {"launch", "wait", "read"}
    /\ status' = "blocked"
    /\ reason' = ReasonInterrupted
    /\ interrupted' = TRUE
    /\ dpc' = "finally"
    /\ UNCHANGED <<pc, proc, capture, capture_exists, returncode, output, launches,
                   read_back, unlinked>>
    /\ UNCHANGED mainLocals
    /\ UNCHANGED unitVars

\* a driver that starts the agent again after an error outcome
DriverFinallyRetries ==
    /\ pc = "agent" /\ dpc = "finally"
    /\ IF status = "error" /\ launches < 2
       THEN /\ dpc' = "launch"
            /\ UNCHANGED <<pc, idx, capture_exists>>
       ELSE /\ dpc' = "returned"
            /\ pc' = "done"
            /\ idx' = 1
            /\ capture_exists' = FALSE
    /\ unlinked' = "ok"
    /\ capture' = <<>>
    /\ returncode' = 0
    /\ UNCHANGED <<proc, output, status, reason, launches, read_back, interrupted>>
    /\ UNCHANGED <<file, args, parsed, phase_num, calls, printed>>
    /\ UNCHANGED recordVars
    /\ UNCHANGED summaryVars
    /\ UNCHANGED unitVars

\* a driver whose removal of the capture file is the last statement of the
\* try block instead of a finally block: the except paths leave the file
DriverFinallyOnlyAfterTry ==
    /\ pc = "agent" /\ dpc = "finally"
    /\ IF read_back
       THEN capture_exists' = FALSE /\ unlinked' = "ok"
       ELSE UNCHANGED <<capture_exists, unlinked>>
    /\ capture' = <<>>
    /\ returncode' = 0
    /\ dpc' = "returned"
    /\ pc' = "done"
    /\ idx' = 1
    /\ UNCHANGED <<proc, output, status, reason, launches, read_back, interrupted>>
    /\ UNCHANGED <<file, args, parsed, phase_num, calls, printed>>
    /\ UNCHANGED recordVars
    /\ UNCHANGED summaryVars
    /\ UNCHANGED unitVars

\* lines 506-510 and 627-635: the capture file is removed and the call
\* returns (status, reason, output); the other locals end with the call
DriverFinally ==
    /\ pc = "agent" /\ dpc = "finally"
    /\ capture_exists' = FALSE
    /\ unlinked' = "ok"
    /\ capture' = <<>>
    /\ returncode' = 0
    /\ dpc' = "returned"
    /\ pc' = "done"
    /\ idx' = 1
    /\ UNCHANGED <<proc, output, status, reason, launches, read_back, interrupted>>
    /\ UNCHANGED <<file, args, parsed, phase_num, calls, printed>>
    /\ UNCHANGED recordVars
    /\ UNCHANGED summaryVars
    /\ UNCHANGED unitVars

\* lines 507-510: os.unlink raises and `except: pass` swallows it; the
\* capture file stays and the call returns as it would have
DriverFinallyKeeps ==
    /\ pc = "agent" /\ dpc = "finally"
    /\ unlinked' = "failed"
    /\ capture' = <<>>
    /\ returncode' = 0
    /\ dpc' = "returned"
    /\ pc' = "done"
    /\ idx' = 1
    /\ UNCHANGED <<proc, capture_exists, output, status, reason, launches,
                   read_back, interrupted>>
    /\ UNCHANGED <<file, args, parsed, phase_num, calls, printed>>
    /\ UNCHANGED recordVars
    /\ UNCHANGED summaryVars
    /\ UNCHANGED unitVars

\* lines 507-510: a KeyboardInterrupt that arrives inside the inner try is
\* swallowed by the bare except, before or after the file is removed; the
\* call returns the outcome it had
DriverFinallyInterrupt ==
    /\ pc = "agent" /\ dpc = "finally"
    /\ interrupted' = TRUE
    /\ \/ capture_exists' = FALSE /\ unlinked' = "ok"
       \/ capture_exists' = capture_exists /\ unlinked' = "failed"
    /\ capture' = <<>>
    /\ returncode' = 0
    /\ dpc' = "returned"
    /\ pc' = "done"
    /\ idx' = 1
    /\ UNCHANGED <<proc, output, status, reason, launches, read_back>>
    /\ UNCHANGED <<file, args, parsed, phase_num, calls, printed>>
    /\ UNCHANGED recordVars
    /\ UNCHANGED summaryVars
    /\ UNCHANGED unitVars

(***************************************************************************)
(* main() after the agent returned, lines 637-661.                         *)
(***************************************************************************)
\* one turn of `for task in pending + in_progress:`, lines 639-642
DoneCall ==
    /\ pc = "done"
    /\ MarksDone(status)
    /\ idx <= Len(DoneList(parsed[phase_num]))
    /\ LET task == DoneList(parsed[phase_num])[idx]
       IN  /\ task.id # ""
           /\ \/ /\ file' \in StoreDone(file, task.id)
                 /\ calls' = Append(calls, [op |-> "done", id |-> task.id, ok |-> TRUE])
              \/ /\ file' = file
                 /\ calls' = Append(calls, [op |-> "done", id |-> task.id, ok |-> FALSE])
    /\ idx' = idx + 1
    /\ UNCHANGED <<pc, args, parsed, phase_num, printed>>
    /\ UNCHANGED driverVars
    /\ UNCHANGED recordVars
    /\ UNCHANGED summaryVars
    /\ UNCHANGED unitVars

\* one turn of the done loop for a task without an id
DoneSkip ==
    /\ pc = "done"
    /\ MarksDone(status)
    /\ idx <= Len(DoneList(parsed[phase_num]))
    /\ DoneList(parsed[phase_num])[idx].id = ""
    /\ idx' = idx + 1
    /\ UNCHANGED <<file, pc, args, parsed, phase_num, calls, printed>>
    /\ UNCHANGED driverVars
    /\ UNCHANGED recordVars
    /\ UNCHANGED summaryVars
    /\ UNCHANGED unitVars

\* run_cru raises in the pick loop (subprocess.run cannot start the cru
\* binary, line 190): nothing in main() catches it
PickRaises ==
    /\ pc = "pick"
    /\ idx <= Len(PickList(parsed[phase_num]))
    /\ LET task == PickList(parsed[phase_num])[idx]
       IN  /\ task.id # ""
           /\ calls' = Append(calls, [op |-> "pick", id |-> task.id, ok |-> FALSE])
    /\ pc' = "crashed"
    /\ fault' = FaultRunCru
    /\ UNCHANGED <<file, args, parsed, phase_num, idx, printed>>
    /\ UNCHANGED <<phase_status, snapshot, saved, log, metrics>>
    /\ UNCHANGED driverVars
    /\ UNCHANGED summaryVars
    /\ UNCHANGED unitVars

\* run_cru raises in the done loop
DoneRaises ==
    /\ pc = "done"
    /\ MarksDone(status)
    /\ idx <= Len(DoneList(parsed[phase_num]))
    /\ LET task == DoneList(parsed[phase_num])[idx]
       IN  /\ task.id # ""
           /\ calls' = Append(calls, [op |-> "done", id |-> task.id, ok |-> FALSE])
    /\ pc' = "crashed"
    /\ fault' = FaultRunCru
    /\ UNCHANGED <<file, args, parsed, phase_num, idx, printed>>
    /\ UNCHANGED <<phase_status, snapshot, saved, log, metrics>>
    /\ UNCHANGED driverVars
    /\ UNCHANGED summaryVars
    /\ UNCHANGED unitVars

\* a KeyboardInterrupt in main() outside run_agent_interactive: in the pick
\* loop, in the done loop or while the record is saved
MainInterrupt ==
    /\ pc \in {"pick", "done", "save"}
    /\ pc' = "crashed"
    /\ fault' = FaultInterrupt
    /\ UNCHANGED <<file, args, parsed, phase_num, idx, calls, printed>>
    /\ UNCHANGED <<phase_status, snapshot, saved, log, metrics>>
    /\ UNCHANGED driverVars
    /\ UNCHANGED summaryVars
    /\ UNCHANGED unitVars

\* lines 643-661: the status line of the cycle; with --export the document
\* is read for the snapshot (line 656) and RunExport.save follows
Finish ==
    /\ pc = "done"
    /\ IF MarksDone(status)
       THEN /\ idx > Len(DoneList(parsed[phase_num]))
            /\ printed' = "completed!"
       ELSE printed' = "blocked"
    /\ IF args.export
       THEN pc' = "save" /\ idx' = 1 /\ snapshot' = file
       ELSE pc' = "exit" /\ UNCHANGED <<idx, snapshot>>
    /\ UNCHANGED <<file, args, parsed, phase_num, calls>>
    /\ UNCHANGED <<phase_status, saved, log, fault, metrics>>
    /\ UNCHANGED driverVars
    /\ UNCHANGED summaryVars
    /\ UNCHANGED unitVars

(***************************************************************************)
(* RunExport.save(), lines 96-121.                                         *)
(***************************************************************************)
\* the artifacts in the order save() writes them
Artifacts ==
    <<"metrics.json", "prompt.md", "output.txt", "TASKS_snapshot.md", "summary.txt">>

\* `if self.output:` and `if self.tasks_file_snapshot:`, lines 111 and 115
Due(name) ==
    CASE name = "output.txt" -> output # <<>>
      [] name = "TASKS_snapshot.md" -> snapshot # NoSnapshot
      [] OTHER -> TRUE

\* one write_text of save() succeeds
SaveWrite ==
    /\ pc = "save"
    /\ idx <= Len(Artifacts)
    /\ Due(Artifacts[idx])
    /\ saved' = saved \cup {Artifacts[idx]}
    /\ idx' = idx + 1
    /\ UNCHANGED <<file, pc, args, parsed, phase_num, calls, printed>>
    /\ UNCHANGED <<phase_status, snapshot, log, fault, metrics>>
    /\ UNCHANGED driverVars
    /\ UNCHANGED summaryVars
    /\ UNCHANGED unitVars

\* an artifact that is not due is passed over
SaveSkip ==
    /\ pc = "save"
    /\ idx <= Len(Artifacts)
    /\ ~Due(Artifacts[idx])
    /\ idx' = idx + 1
    /\ UNCHANGED <<file, pc, args, parsed, phase_num, calls, printed>>
    /\ UNCHANGED recordVars
    /\ UNCHANGED driverVars
    /\ UNCHANGED summaryVars
    /\ UNCHANGED unitVars

\* one write_text of save() raises (or, before the first, mkdir of line
\* 100): neither save() nor main() catches it
SaveRaises ==
    /\ pc = "save"
    /\ idx <= Len(Artifacts)
    /\ Due(Artifacts[idx])
    /\ pc' = "crashed"
    /\ fault' = FaultSave
    /\ UNCHANGED <<file, args, parsed, phase_num, idx, calls, printed>>
    /\ UNCHANGED <<phase_status, snapshot, saved, log, metrics>>
    /\ UNCHANGED driverVars
    /\ UNCHANGED summaryVars
    /\ UNCHANGED unitVars

\* save() returns, lines 121 and 659-661
SaveDone ==
    /\ pc = "save"
    /\ idx > Len(Artifacts)
    /\ pc' = "exit"
    /\ UNCHANGED <<file, args, parsed, phase_num, idx, calls, printed>>
    /\ UNCHANGED recordVars
    /\ UNCHANGED driverVars
    /\ UNCHANGED summaryVars
    /\ UNCHANGED unitVars

\* the process ends; the next invocation starts from fresh locals
Exit ==
    /\ pc \in {"exit", "crashed"}
    /\ pc' = "idle"
    /\ args' = NoArgs
    /\ parsed' = <<>>
    /\ phase_num' = NoPhase
    /\ idx' = 0
    /\ calls' = <<>>
    /\ printed' = ""
    /\ dpc' = "none"
    /\ proc' = "none"
    /\ capture' = <<>>
    /\ capture_exists' = FALSE
    /\ returncode' = 0
    /\ output' = <<>>
    /\ status' = ""
    /\ reason' = <<>>
    /\ launches' = 0
    /\ read_back' = FALSE
    /\ unlinked' = "none"
    /\ interrupted' = FALSE
    /\ phase_status' = NoStatus
    /\ snapshot' = NoSnapshot
    /\ saved' = {}
    /\ log' = <<>>
    /\ fault' = ""
    /\ metrics' = NoMetrics
    /\ UNCHANGED file
    /\ UNCHANGED summaryVars
    /\ UNCHANGED unitVars

(***************************************************************************)
(* Specifications.                                                         *)
(***************************************************************************)
\* what the agent writes in the cycles of Spec
SampleOutputs(n) == {<<>>, Marker(n), <<TokBlocked, SP, "x">>}

SampleCodes == {0, 1}

\* the invocations without --export that run to their return statement
Next ==
    \/ \E ph \in PhaseArgs, dry \in BOOLEAN : Start(ph, dry, FALSE)
    \/ PickCall
    \/ PickSkip
    \/ CallAgent
    \/ DriverPre
    \/ DriverLaunch
    \/ DriverRaises
    \/ AgentExits(SampleOutputs(phase_num), SampleCodes)
    \/ DriverClassify
    \/ DriverInterrupt
    \/ DriverFinally
    \/ DoneCall
    \/ DoneSkip
    \/ Finish
    \/ Exit

Spec == Init /\ [][Next]_vars

\* the driver alone, on every output of at most MaxOut tokens
Alphabet == {TokPhase, "1", TokComplete, TokBlocked, NL, SP, "x"}

AllOutputs == UNION {[1..n -> Alphabet] : n \in 0..MaxOut}

DriverPhases == {1, 11}

InitDriver ==
    /\ file = <<>>
    /\ pc = "agent"
    /\ args = NoArgs
    /\ parsed = <<>>
    /\ phase_num \in DriverPhases
    /\ idx = 0
    /\ calls = <<>>
    /\ printed = ""
    /\ dpc = "pre"
    /\ proc = "none"
    /\ capture = <<>>
    /\ capture_exists = FALSE
    /\ returncode = 0
    /\ output = <<>>
    /\ status = ""
    /\ reason = <<>>
    /\ launches = 0
    /\ read_back = FALSE
    /\ unlinked = "none"
    /\ interrupted = FALSE
    /\ phase_status = NoStatus
    /\ snapshot = NoSnapshot
    /\ saved = {}
    /\ log = <<>>
    /\ fault = ""
    /\ metrics = NoMetrics
    /\ runs = <<>>
    /\ report = <<>>
    /\ UnitsAtRest

NextDriver ==
    \/ DriverPre
    \/ DriverPreInterrupt
    \/ DriverLaunch
    \/ DriverRaises
    \/ AgentExits(AllOutputs, ExitCodes)
    \/ DriverClassify
    \/ DriverInterrupt
    \/ DriverFinally
    \/ DriverFinallyKeeps
    \/ DriverFinallyInterrupt

SpecDriver == InitDriver /\ [][NextDriver]_vars

\* the invocations with --export, with every way main() can end: a signal
\* outside the driver, run_cru raising, a write of the record raising
NextCycle ==
    \/ \E ph \in PhaseArgs, dry \in BOOLEAN : Start(ph, dry, TRUE)
    \/ PickCall
    \/ PickSkip
    \/ PickRaises
    \/ CallAgent
    \/ DriverPre
    \/ DriverPreInterrupt
    \/ DriverLaunch
    \/ DriverRaises
    \/ AgentExits(SampleOutputs(phase_num), SampleCodes)
    \/ DriverClassify
    \/ DriverInterrupt
    \/ DriverFinally
    \/ DriverFinallyKeeps
    \/ DriverFinallyInterrupt
    \/ DoneCall
    \/ DoneSkip
    \/ DoneRaises
    \/ MainInterrupt
    \/ Finish
    \/ SaveWrite
    \/ SaveSkip
    \/ SaveRaises
    \/ SaveDone
    \/ Exit

SpecCycle == Init /\ [][NextCycle]_vars

\* the invocations that mutate (no dry run, no --export), cut short at any
\* point of main() by a signal or by run_cru raising
NextInterrupted ==
    \/ \E ph \in PhaseArgs : Start(ph, FALSE, FALSE)
    \/ PickCall
    \/ PickSkip
    \/ PickRaises
    \/ CallAgent
    \/ DriverPre
    \/ DriverPreInterrupt
    \/ DriverLaunch
    \/ DriverRaises
    \/ AgentExits({<<>>, Marker(phase_num)}, {0})
    \/ DriverClassify
    \/ DriverInterrupt
    \/ DriverFinally
    \/ DoneCall
    \/ DoneSkip
    \/ DoneRaises
    \/ MainInterrupt
    \/ Finish
    \/ Exit

SpecInterrupted == Init /\ [][NextInterrupted]_vars

\* the driver's and the record's variables before anything ran
DriverAtRest ==
    /\ dpc = "none"
    /\ proc = "none"
    /\ capture = <<>>
    /\ capture_exists = FALSE
    /\ returncode = 0
    /\ output = <<>>
    /\ status = ""
    /\ reason = <<>>
    /\ launches = 0
    /\ read_back = FALSE
    /\ unlinked = "none"
    /\ interrupted = FALSE

RecordAtRest ==
    /\ phase_status = NoStatus
    /\ snapshot = NoSnapshot
    /\ saved = {}
    /\ log = <<>>
    /\ fault = ""
    /\ metrics = NoMetrics

\* get_phase_status alone, on every phase of at most MaxListed tasks
TaskLists == UNION {[1..n -> Task] : n \in 0..MaxListed}

InitStatus ==
    /\ file = <<>>
    /\ pc = "status"
    /\ args = NoArgs
    /\ parsed \in {[p \in {1} |-> t] : t \in TaskLists}
    /\ phase_num = 1
    /\ idx = 0
    /\ calls = <<>>
    /\ printed = ""
    /\ DriverAtRest
    /\ RecordAtRest
    /\ runs = <<>>
    /\ report = <<>>
    /\ UnitsAtRest

\* `completed, pending, in_progress = get_phase_status(phase)`, line 565
GetPhaseStatus ==
    /\ pc = "status"
    /\ phase_status' = get_phase_status(parsed[phase_num])
    /\ pc' = "counted"
    /\ UNCHANGED <<file, args, parsed, phase_num, idx, calls, printed>>
    /\ UNCHANGED <<snapshot, saved, log, fault, metrics>>
    /\ UNCHANGED driverVars
    /\ UNCHANGED summaryVars
    /\ UNCHANGED unitVars

NextStatus == GetPhaseStatus

SpecStatus == InitStatus /\ [][NextStatus]_vars

(***************************************************************************)
(* summarize_runs(), lines 664-713.                                        *)
(***************************************************************************)
\* the fields of a loaded metrics.json that the totals are taken from
RunRecord ==
    [duration_seconds : {0, 2}, tasks_pending : {0, 1, 2}, prompt_tokens_est : {0, 3}]

RunLists == UNION {[1..n -> RunRecord] : n \in 0..MaxRuns}

\* sum(r[field] for r in runs)
RECURSIVE SumOf(_, _)
SumOf(rs, field) ==
    IF rs = <<>> THEN 0 ELSE Head(rs)[field] + SumOf(Tail(rs), field)

\* a printed line with a value num / den
Line(text, num, den) == [text |-> text, num |-> num, den |-> den]

LineNoRuns == Line("No runs found.", 0, 1)

FaultZeroDivision == "ZeroDivisionError"

\* a summary that prints the averages whenever tasks were attempted
PrintsAveragesIgnoresDuration(total_tasks, total_duration) == total_tasks > 0

\* `if total_tasks > 0 and total_duration > 0:`, line 696
PrintsAverages(total_tasks, total_duration) ==
    total_tasks > 0 /\ total_duration > 0

\* lines 681-693: the totals
Totals(rs) ==
    <<Line("Tasks attempted", SumOf(rs, "tasks_pending"), 1),
      Line("Total duration", SumOf(rs, "duration_seconds"), 1),
      Line("Total prompt tokens", SumOf(rs, "prompt_tokens_est"), 1)>>

\* lines 697-698: the two averages, each a quotient
Averages(rs) ==
    <<Line("Avg time per task", SumOf(rs, "duration_seconds"), SumOf(rs, "tasks_pending")),
      Line("Avg tokens per phase", SumOf(rs, "prompt_tokens_est"), Len(rs))>>

InitSummary ==
    /\ file = <<>>
    /\ pc = "summary"
    /\ args = NoArgs
    /\ parsed = <<>>
    /\ phase_num = NoPhase
    /\ idx = 0
    /\ calls = <<>>
    /\ printed = ""
    /\ DriverAtRest
    /\ RecordAtRest
    /\ runs \in RunLists
    /\ report = <<>>
    /\ UnitsAtRest

\* lines 673-675: no record was loaded
SummarizeNone ==
    /\ pc = "summary"
    /\ runs = <<>>
    /\ report' = <<LineNoRuns>>
    /\ pc' = "summarized"
    /\ UNCHANGED <<file, args, parsed, phase_num, idx, calls, printed, runs>>
    /\ UNCHANGED recordVars
    /\ UNCHANGED driverVars
    /\ UNCHANGED unitVars

\* lines 677-713: the totals and, under the guard of line 696, the averages;
\* a quotient with the divisor 0 raises ZeroDivisionError
Summarize ==
    /\ pc = "summary"
    /\ runs # <<>>
    /\ IF PrintsAverages(SumOf(runs, "tasks_pending"), SumOf(runs, "duration_seconds"))
       THEN IF \E i \in 1..Len(Averages(runs)) : Averages(runs)[i].den = 0
            THEN /\ report' = Totals(runs)
                 /\ fault' = FaultZeroDivision
                 /\ pc' = "crashed"
            ELSE /\ report' = Totals(runs) \o Averages(runs)
                 /\ fault' = fault
                 /\ pc' = "summarized"
       ELSE /\ report' = Totals(runs)
            /\ fault' = fault
            /\ pc' = "summarized"
    /\ UNCHANGED <<file, args, parsed, phase_num, idx, calls, printed, runs>>
    /\ UNCHANGED <<phase_status, snapshot, saved, log, metrics>>
    /\ UNCHANGED driverVars
    /\ UNCHANGED unitVars

NextSummary ==
    \/ SummarizeNone
    \/ Summarize

SpecSummary == InitSummary /\ [][NextSummary]_vars

(***************************************************************************)
(* The metadata block from parsing to prompt compilation.                  *)
(***************************************************************************)
\* parse_tasks_file, lines 197-207, on a document that opens with a block
ParseFrontmatter ==
    /\ pc = "frontmatter"
    /\ locals' = [locals EXCEPT !.frontmatter = Loaded(block)]
    /\ pc' = "title"
    /\ UNCHANGED mainLocals
    /\ UNCHANGED driverVars

\* main, line 526: `title = parsed['frontmatter'].get('title', 'Unknown')`;
\* a str and a list have no attribute `get`
ResolveTitle ==
    /\ pc = "title"
    /\ IF frontmatter.kind = "dict"
       THEN /\ locals' = [locals EXCEPT
                             !.title = Get(frontmatter, "title", "Unknown")]
            /\ pc' = "compile"
            /\ fault' = fault
       ELSE /\ locals' = locals
            /\ pc' = "crashed"
            /\ fault' = "AttributeError: no attribute 'get'"
    /\ UNCHANGED <<file, args, parsed, phase_num, idx, calls, printed,
                   phase_status, snapshot, saved, log, metrics, runs,
                   report>>
    /\ UNCHANGED driverVars

\* generate_phase_prompt, lines 370-374
ResolveSettings ==
    /\ pc = "compile"
    /\ locals' = [locals EXCEPT
                     !.verify_command = Get(frontmatter, "verify", "just test"),
                     !.tdd_enabled = Get(frontmatter, "tdd", "False")]
    /\ pc' = "compiled"
    /\ UNCHANGED mainLocals
    /\ UNCHANGED driverVars

\* every block of at most MaxBlock lines
InitFrontmatter ==
    /\ file = <<>>
    /\ pc = "frontmatter"
    /\ args = NoArgs
    /\ parsed = <<>>
    /\ phase_num = NoPhase
    /\ idx = 0
    /\ calls = <<>>
    /\ printed = ""
    /\ DriverAtRest
    /\ RecordAtRest
    /\ runs = <<>>
    /\ report = <<>>
    /\ \E b \in UNION {[1..n -> BlockLines] : n \in 0..MaxBlock} :
          locals = [block |-> b, frontmatter |-> EmptyDict, title |-> "",
                    verify_command |-> "", tdd_enabled |-> ""]

NextFrontmatter ==
    \/ ParseFrontmatter
    \/ ResolveTitle
    \/ ResolveSettings

SpecFrontmatter == InitFrontmatter /\ [][NextFrontmatter]_vars

(***************************************************************************)
(* read_context_files(), lines 330-353.                                    *)
(***************************************************************************)
\* the text of a file of n characters
ContentOf(n) == [i \in 1..n |-> Digits[(i % 10) + 1]]

\* a listed file as the disk has it: absent, present and unreadable, or
\* present with a text whose length lies around the ceiling
ContextFiles ==
    [exists : {FALSE}, readable : {FALSE}, len : {0}]
        \cup [exists : {TRUE}, readable : {FALSE}, len : {0}]
        \cup [exists : {TRUE}, readable : {TRUE},
              len : {0, TruncateAt - 1, TruncateAt, TruncateAt + 1}]

\* a truncation that also cuts a text of exactly the ceiling's length
InlinedCutsAtCeiling(content) ==
    IF Len(content) >= TruncateAt
    THEN SubSeq(content, 1, TruncateAt) \o <<"\n... (truncated)">>
    ELSE content

\* lines 342-343: `if len(content) > 5000: content = content[:5000] + ...`
Inlined(content) ==
    IF Len(content) > TruncateAt
    THEN SubSeq(content, 1, TruncateAt) \o <<"\n... (truncated)">>
    ELSE content

InitContext ==
    /\ file = <<>>
    /\ pc = "context"
    /\ args = NoArgs
    /\ parsed = <<>>
    /\ phase_num = NoPhase
    /\ idx = 1
    /\ calls = <<>>
    /\ printed = ""
    /\ DriverAtRest
    /\ RecordAtRest
    /\ runs = <<>>
    /\ report = <<>>
    /\ \E fs \in UNION {[1..n -> ContextFiles] : n \in 0..MaxFiles} :
          locals = [context_files |-> fs, parts |-> <<>>]

\* lines 332-334: nothing is listed
ReadContextNone ==
    /\ pc = "context"
    /\ context_files = <<>>
    /\ locals' = [locals EXCEPT !.parts =
                     <<[fenced |-> FALSE, body |-> <<"(none specified)">>]>>]
    /\ pc' = "joined"
    /\ UNCHANGED mainLocals
    /\ UNCHANGED driverVars

\* one turn of `for file_path in context_files:`, lines 339-351
ReadContextFile ==
    /\ pc = "context"
    /\ idx <= Len(context_files)
    /\ LET f == context_files[idx]
       IN  locals' = [locals EXCEPT !.parts = Append(parts,
              IF ~f.exists
              THEN [fenced |-> FALSE, body |-> <<"(File not found)">>]
              ELSE IF ~f.readable
              THEN [fenced |-> FALSE, body |-> <<"(Error reading: e)">>]
              ELSE [fenced |-> TRUE, body |-> Inlined(ContentOf(f.len))])]
    /\ idx' = idx + 1
    /\ UNCHANGED pc
    /\ UNCHANGED <<file, args, parsed, phase_num, calls, printed, phase_status,
                   snapshot, saved, log, fault, metrics, runs,
                   report>>
    /\ UNCHANGED driverVars

\* line 353: `return '\n\n'.join(parts)`
ReadContextDone ==
    /\ pc = "context"
    /\ context_files # <<>>
    /\ idx > Len(context_files)
    /\ pc' = "joined"
    /\ UNCHANGED unitVars
    /\ UNCHANGED mainLocals
    /\ UNCHANGED driverVars

NextContext ==
    \/ ReadContextNone
    \/ ReadContextFile
    \/ ReadContextDone

SpecContext == InitContext /\ [][NextContext]_vars

(***************************************************************************)
(* The line loop of parse_tasks_file(), lines 209-287.                     *)
(***************************************************************************)
\* the lines of a document body: `## Phase N: T`, `### 1.1 T`, a task line
\* `- [ ] t [id:: a]`, a line of text, a line of text after two blanks, a
\* line of text after a tab, the empty line, and a `#` line that is neither
\* kind of header
ParserLines ==
    [form : {"phase"}, num : {1, 2}]
        \cup [form : {"section", "task", "text", "indented", "tabbed", "blank",
                      "hash"},
              num : {0}]

\* a test that takes any leading white space for the indentation
StartsWithWhitespace(l) == l.form \in {"indented", "tabbed"}

\* `lines[j].startswith('  ')`, line 258
StartsWithTwoSpaces(l) == l.form = "indented"

\* the inner loop of lines 257-261: the first j from which on it stops
RECURSIVE ExtentEnd(_, _)
ExtentEnd(ls, j) ==
    IF j <= Len(ls) /\ (StartsWithTwoSpaces(ls[j]) \/ ls[j].form = "blank")
    THEN ExtentEnd(ls, j + 1)
    ELSE j

InitParser ==
    /\ file = <<>>
    /\ pc = "lines"
    /\ args = NoArgs
    /\ parsed = <<>>
    /\ phase_num = NoPhase
    /\ idx = 1
    /\ calls = <<>>
    /\ printed = ""
    /\ DriverAtRest
    /\ RecordAtRest
    /\ runs = <<>>
    /\ report = <<>>
    /\ \E ls \in UNION {[1..n -> ParserLines] : n \in 0..MaxLines} :
          locals = [lines |-> ls, current_phase |-> NoPhase,
                    current_section |-> "", phases |-> <<>>, classes |-> <<>>]

\* lines 219-233: a phase header opens a new phase
ParsePhaseHeader ==
    /\ pc = "lines"
    /\ idx <= Len(lines)
    /\ lines[idx].form = "phase"
    /\ locals' = [locals EXCEPT
          !.current_phase = lines[idx].num,
          !.phases = [n \in DOMAIN phases \cup {lines[idx].num} |->
                         IF n = lines[idx].num
                         THEN [description |-> <<>>, tasks |-> <<>>,
                               sections |-> {}]
                         ELSE phases[n]],
          !.classes = Append(classes, "phase")]
    /\ idx' = idx + 1
    /\ UNCHANGED pc
    /\ UNCHANGED <<file, args, parsed, phase_num, calls, printed, phase_status,
                   snapshot, saved, log, fault, metrics, runs,
                   report>>
    /\ UNCHANGED driverVars

\* lines 235-244: a section header inside a phase
ParseSectionHeader ==
    /\ pc = "lines"
    /\ idx <= Len(lines)
    /\ lines[idx].form = "section"
    /\ current_phase # NoPhase
    /\ locals' = [locals EXCEPT
          !.current_section = "1.1",
          !.phases = [phases EXCEPT ![current_phase].sections = @ \cup {"1.1"}],
          !.classes = Append(classes, "section")]
    /\ idx' = idx + 1
    /\ UNCHANGED pc
    /\ UNCHANGED <<file, args, parsed, phase_num, calls, printed, phase_status,
                   snapshot, saved, log, fault, metrics, runs,
                   report>>
    /\ UNCHANGED driverVars

\* lines 246-276: a task line inside a phase, with the lines of its body
ParseTask ==
    /\ pc = "lines"
    /\ idx <= Len(lines)
    /\ lines[idx].form = "task"
    /\ current_phase # NoPhase
    /\ LET j == ExtentEnd(lines, idx + 1)
           spec_lines == SelectSeq(SubSeq(lines, idx + 1, j - 1),
                                   LAMBDA l : l.form # "blank")
       IN  /\ locals' = [locals EXCEPT
                 !.phases = [phases EXCEPT ![current_phase].tasks =
                                Append(@, [spec |-> spec_lines,
                                           section |-> current_section])],
                 !.classes = classes \o <<"task">>
                                \o [k \in 1..(j - idx - 1) |-> "body"]]
           /\ idx' = j
    /\ UNCHANGED pc
    /\ UNCHANGED <<file, args, parsed, phase_num, calls, printed, phase_status,
                   snapshot, saved, log, fault, metrics, runs,
                   report>>
    /\ UNCHANGED driverVars

\* lines 278-282: any other line; it goes to the phase's description under
\* the condition of line 279
ParseOther ==
    /\ pc = "lines"
    /\ idx <= Len(lines)
    /\ lines[idx].form # "phase"
    /\ ~(lines[idx].form \in {"section", "task"} /\ current_phase # NoPhase)
    /\ IF /\ current_phase # NoPhase
          /\ current_section = ""
          /\ lines[idx].form # "blank"
          /\ lines[idx].form \notin {"section", "hash"}
       THEN locals' = [locals EXCEPT
               !.phases = [phases EXCEPT ![current_phase].description =
                              Append(@, lines[idx])],
               !.classes = Append(classes, "description")]
       ELSE locals' = [locals EXCEPT !.classes = Append(classes, "none")]
    /\ idx' = idx + 1
    /\ UNCHANGED pc
    /\ UNCHANGED <<file, args, parsed, phase_num, calls, printed, phase_status,
                   snapshot, saved, log, fault, metrics, runs,
                   report>>
    /\ UNCHANGED driverVars

\* lines 216 and 284-287: the loop is over
ParseDone ==
    /\ pc = "lines"
    /\ idx > Len(lines)
    /\ pc' = "parsed"
    /\ UNCHANGED unitVars
    /\ UNCHANGED mainLocals
    /\ UNCHANGED driverVars

NextParser ==
    \/ ParsePhaseHeader
    \/ ParseSectionHeader
    \/ ParseTask
    \/ ParseOther
    \/ ParseDone

SpecParser == InitParser /\ [][NextParser]_vars

(***************************************************************************)
(* The task loop of scripts/task-runner.py, main(), lines 259-303.  The    *)
(* document maps the task numbers 1..MaxTasks to their status; a call is a *)
(* record of the run_cru command, its task, whether it exited with 0, and  *)
(* the reason it carried.                                                  *)
(***************************************************************************)
\* what run_agent_interactive of task-runner.py returns: (status, reason)
AgentOutcomes ==
    {[status |-> "complete", reason |-> ""],
     [status |-> "blocked", reason |-> "r"],
     [status |-> "blocked", reason |-> ""],
     [status |-> "error", reason |-> "Agent exited with code 1"]}

InitLoop ==
    /\ file \in [1..MaxTasks -> {"pending", "in_progress", "done", "blocked"}]
    /\ pc = "fetch"
    /\ args \in {[NoArgs EXCEPT !.dry_run = dry] : dry \in BOOLEAN}
    /\ parsed = <<>>
    /\ phase_num = NoPhase
    /\ idx = 0
    /\ calls = <<>>
    /\ printed = ""
    /\ DriverAtRest
    /\ RecordAtRest
    /\ runs = <<>>
    /\ report = <<>>
    /\ locals = [task_id |-> 0, completed |-> 0, outcomes |-> <<>>]

\* lines 261-267: get_next_task; `cru tasks next` names a task that is ready,
\* or none, or exits with an error, which get_next_task turns into None
GetNextTask ==
    /\ pc = "fetch"
    /\ \/ \E t \in {u \in DOMAIN file : file[u] \in {"pending", "in_progress"}} :
             /\ locals' = [locals EXCEPT !.task_id = t]
             /\ calls' = Append(calls, [op |-> "next", id |-> t, ok |-> TRUE,
                                        reason |-> ""])
             /\ pc' = "task"
             /\ printed' = printed
       \/ /\ locals' = [locals EXCEPT !.task_id = 0]
          /\ \E ok \in BOOLEAN :
                calls' = Append(calls, [op |-> "next", id |-> 0, ok |-> ok,
                                        reason |-> ""])
          /\ pc' = "end"
          /\ printed' = "All tasks complete!"
    /\ UNCHANGED <<file, args, parsed, phase_num, idx>>
    /\ UNCHANGED recordVars
    /\ UNCHANGED summaryVars
    /\ UNCHANGED driverVars

\* lines 277-282: `if args.dry_run:` ... `break`
DryRunBreak ==
    /\ pc = "task"
    /\ args.dry_run
    /\ pc' = "end"
    /\ printed' = "[DRY RUN]"
    /\ UNCHANGED <<file, args, parsed, phase_num, idx, calls>>
    /\ UNCHANGED unitVars
    /\ UNCHANGED recordVars
    /\ UNCHANGED summaryVars
    /\ UNCHANGED driverVars

\* a loop that goes on to the agent whatever pick_task returned
PickTaskIgnoresResult ==
    /\ pc = "task"
    /\ ~args.dry_run
    /\ \/ /\ file[task_id] = "pending"
          /\ file' = [file EXCEPT ![task_id] = "in_progress"]
          /\ calls' = Append(calls, [op |-> "pick", id |-> task_id, ok |-> TRUE,
                                     reason |-> ""])
       \/ /\ file' = file
          /\ calls' = Append(calls, [op |-> "pick", id |-> task_id, ok |-> FALSE,
                                     reason |-> ""])
    /\ pc' = "run"
    /\ UNCHANGED <<args, parsed, phase_num, idx, printed>>
    /\ UNCHANGED unitVars
    /\ UNCHANGED recordVars
    /\ UNCHANGED summaryVars
    /\ UNCHANGED driverVars

\* lines 284-287: pick_task; the loop ends when the call did not exit with 0
PickTask ==
    /\ pc = "task"
    /\ ~args.dry_run
    /\ \/ /\ file[task_id] = "pending"
          /\ file' = [file EXCEPT ![task_id] = "in_progress"]
          /\ calls' = Append(calls, [op |-> "pick", id |-> task_id, ok |-> TRUE,
                                     reason |-> ""])
          /\ pc' = "run"
          /\ printed' = printed
       \/ /\ file' = file
          /\ calls' = Append(calls, [op |-> "pick", id |-> task_id, ok |-> FALSE,
                                     reason |-> ""])
          /\ pc' = "end"
          /\ printed' = "Could not pick task"
    /\ UNCHANGED <<args, parsed, phase_num, idx>>
    /\ UNCHANGED unitVars
    /\ UNCHANGED recordVars
    /\ UNCHANGED summaryVars
    /\ UNCHANGED driverVars

\* line 290: `status, reason = run_agent_interactive(...)`
RunAgent ==
    /\ pc = "run"
    /\ \E o \in AgentOutcomes :
          /\ status' = o.status
          /\ reason' = o.reason
          /\ locals' = [locals EXCEPT !.outcomes =
                           Append(outcomes, [id |-> task_id, status |-> o.status])]
    /\ launches' = launches + 1
    /\ pc' = "outcome"
    /\ UNCHANGED <<dpc, proc, capture, capture_exists, returncode, output,
                   read_back, unlinked, interrupted>>
    /\ UNCHANGED mainLocals

\* lines 292-295: complete_task, whose result is not looked at
CompleteTask ==
    /\ pc = "outcome"
    /\ status = "complete"
    /\ \E ok \in BOOLEAN :
          /\ file' = IF ok THEN [file EXCEPT ![task_id] = "done"] ELSE file
          /\ calls' = Append(calls, [op |-> "done", id |-> task_id, ok |-> ok,
                                     reason |-> ""])
    /\ locals' = [locals EXCEPT !.completed = completed + 1]
    /\ pc' = "fetch"
    /\ UNCHANGED <<args, parsed, phase_num, idx, printed>>
    /\ UNCHANGED recordVars
    /\ UNCHANGED summaryVars
    /\ UNCHANGED driverVars

\* lines 296-301: `reason = reason or "Unknown error"`, block_task, `break`
BlockTask ==
    /\ pc = "outcome"
    /\ status # "complete"
    /\ reason' = IF reason = "" THEN "Unknown error" ELSE reason
    /\ \E ok \in BOOLEAN :
          /\ file' = IF ok THEN [file EXCEPT ![task_id] = "blocked"] ELSE file
          /\ calls' = Append(calls, [op |-> "blocked", id |-> task_id, ok |-> ok,
                                     reason |-> reason'])
    /\ pc' = "end"
    /\ printed' = "Stopping task runner."
    /\ UNCHANGED <<dpc, proc, capture, capture_exists, returncode, output,
                   status, launches, read_back, unlinked, interrupted>>
    /\ UNCHANGED <<args, parsed, phase_num, idx>>
    /\ UNCHANGED unitVars
    /\ UNCHANGED recordVars
    /\ UNCHANGED summaryVars

\* run_cru raises (subprocess.run cannot start the cru binary, line 55) in
\* get_next_task, pick_task, complete_task or block_task: nothing catches it
LoopCruRaises ==
    /\ \/ pc = "fetch"
       \/ pc = "task" /\ ~args.dry_run
       \/ pc = "outcome"
    /\ calls' = Append(calls,
          [op |-> IF pc = "fetch" THEN "next"
                  ELSE IF pc = "task" THEN "pick"
                  ELSE IF status = "complete" THEN "done" ELSE "blocked",
           id |-> IF pc = "fetch" THEN 0 ELSE task_id,
           ok |-> FALSE,
           reason |-> IF pc = "outcome" /\ status # "complete"
                      THEN (IF reason = "" THEN "Unknown error" ELSE reason)
                      ELSE ""])
    /\ fault' = FaultRunCru
    /\ pc' = "crashed"
    /\ UNCHANGED <<file, args, parsed, phase_num, idx, printed>>
    /\ UNCHANGED <<phase_status, snapshot, saved, log, metrics>>
    /\ UNCHANGED unitVars
    /\ UNCHANGED summaryVars
    /\ UNCHANGED driverVars

NextLoop ==
    \/ GetNextTask
    \/ DryRunBreak
    \/ PickTask
    \/ RunAgent
    \/ CompleteTask
    \/ BlockTask
    \/ LoopCruRaises

SpecLoop == InitLoop /\ [][NextLoop]_vars

(***************************************************************************)
(* Properties.                                                             *)
(***************************************************************************)
NotDone(t) == t.status # "done"

\* some task of the phase is not done
Outstanding(tasks) == \E i \in 1..Len(tasks) : NotDone(tasks[i])

\* the invocation chose its phase with get_next_phase (no usable --phase)
ChoseNext == pc # "idle" /\ args.phase = NoPhase

\* C1: when get_next_phase returns a phase number N, phase N holds a task
\* that is not done and no phase with a lower number does.
C1_LowestOutstandingPhase ==
    (ChoseNext /\ phase_num # NoPhase) =>
        /\ phase_num \in DOMAIN parsed
        /\ Outstanding(parsed[phase_num])
        /\ \A m \in DOMAIN parsed : m < phase_num => ~Outstanding(parsed[m])

\* a lower phase is all done, with an in-progress task in the phase chosen
C1_Witness ==
    /\ ChoseNext
    /\ phase_num = 1
    /\ 0 \in DOMAIN parsed
    /\ parsed[0] # <<>>
    /\ \E i \in 1..Len(parsed[1]) : parsed[1][i].status = "in_progress"

\* C2: get_next_phase returns none exactly when every task of every phase
\* is done; a phase without tasks is never returned and does not keep the
\* scan from a later phase with outstanding work.
C2_NoneIffAllDone ==
    ChoseNext =>
        /\ (phase_num = NoPhase) <=>
               (\A m \in DOMAIN parsed : ~Outstanding(parsed[m]))
        /\ phase_num # NoPhase =>
               (phase_num \in DOMAIN parsed /\ parsed[phase_num] # <<>>)

\* an empty phase 0 is passed over for phase 1
C2_Witness ==
    /\ ChoseNext
    /\ 0 \in DOMAIN parsed
    /\ parsed[0] = <<>>
    /\ phase_num = 1

\* the output was read back and classified, and the call has not returned
Classified == dpc = "finally" /\ read_back

\* C3: when the captured output contains "PHASE N COMPLETE" for the phase
\* of the cycle, the outcome is complete with an empty reason, whatever the
\* exit code and whether or not a line begins with "BLOCKED:".
C3_MarkerMeansComplete ==
    (Classified /\ Contains(output, Marker(phase_num))) =>
        (status = "complete" /\ reason = <<>>)

\* the marker in a line that begins with "BLOCKED:", and a non-zero exit
C3_Witness ==
    /\ Classified
    /\ Contains(output, Marker(phase_num))
    /\ BlockedStarts(output) # {}
    /\ returncode # 0

\* the first line of out that begins with "BLOCKED:", without the prefix
RestOfFirstBlocked(out) ==
    LET i == CHOOSE k \in BlockedStarts(out) : \A m \in BlockedStarts(out) : k <= m
    IN  SubSeq(out, i + 1, LineEnd(out, i) - 1)

BlockedCase ==
    /\ Classified
    /\ ~Contains(output, Marker(phase_num))
    /\ BlockedStarts(output) # {}

\* C4 as stated: without the marker and with a line that begins with
\* "BLOCKED:", the outcome is blocked and the reason is the remainder of the
\* first such line, whatever the exit code.
C4_ReasonIsRemainder ==
    BlockedCase =>
        (status = "blocked" /\ reason = RestOfFirstBlocked(output))

\* C4 as amended: the reason is the remainder of the first such line with
\* the white space at both ends removed.
C4_ReasonIsStrippedRemainder ==
    BlockedCase =>
        /\ status = "blocked"
        /\ reason = Strip(RestOfFirstBlocked(output))
        /\ (reason = <<>> \/ (Head(reason) # SP /\ reason[Len(reason)] # SP))

\* the line "BLOCKED: x" with a non-zero exit code: the reason is "x"
C4_Witness ==
    /\ BlockedCase
    /\ returncode # 0
    /\ RestOfFirstBlocked(output) = <<SP, "x">>
    /\ reason = <<"x">>

\* C5: with neither the marker nor a line that begins with "BLOCKED:", the
\* outcome is error with a reason naming the exit code when the exit code is
\* not zero, and blocked with the fixed default reason when it is zero.
C5_ExitCodeDecides ==
    (/\ Classified
     /\ ~Contains(output, Marker(phase_num))
     /\ BlockedStarts(output) = {}) =>
        IF returncode # 0
        THEN status = "error" /\ reason = <<"Agent exited with code ">> \o Str(returncode)
        ELSE status = "blocked" /\ reason = ReasonDefault

\* empty output and exit code 0
C5_Witness ==
    /\ Classified
    /\ output = <<>>
    /\ returncode = 0
    /\ status = "blocked"

\* the agent has been called, or has returned error or blocked
AgentRunsOrFailed ==
    \/ pc = "agent"
    \/ pc \in {"done", "exit"} /\ status \in {"error", "blocked"}

\* C6: in a cycle whose outcome is error or blocked no mutation call is
\* issued once the agent is launched: the document stays as it was at launch.
C6_NoMutationUnlessComplete ==
    [][AgentRunsOrFailed => (file' = file /\ Len(calls') <= Len(calls))]_vars

\* an error outcome for a phase with a picked task that has an identifier
C6_Witness ==
    /\ pc = "exit"
    /\ status = "error"
    /\ calls # <<>>
    /\ \E i \in 1..Len(DoneList(parsed[phase_num])) :
          DoneList(parsed[phase_num])[i].id # ""

\* C7: a dry-run invocation launches no agent and issues no pick and no
\* done call: the document is as it was parsed.
C7_DryRunChangesNothing ==
    (pc # "idle" /\ args.dry_run) =>
        /\ calls = <<>>
        /\ launches = 0
        /\ proc = "none"
        /\ dpc = "none"
        /\ file = parsed

\* a dry run of a phase with a pending task that has an identifier
C7_Witness ==
    /\ pc = "exit"
    /\ args.dry_run
    /\ printed = "[DRY RUN]"
    /\ \E i \in 1..Len(PickList(parsed[phase_num])) :
          PickList(parsed[phase_num])[i].id # ""

Rank(st) == CASE st = "pending" -> 0 [] st = "in_progress" -> 1 [] st = "done" -> 2

\* the task of the phase being run that a call was issued for
IssuedFor(c, sts) ==
    \E i \in 1..Len(parsed[phase_num]) :
        /\ parsed[phase_num][i].id = c.id
        /\ parsed[phase_num][i].status \in sts

CallsFollowOrder ==
    \A k \in 1..Len(calls) :
        /\ calls[k].id # ""
        /\ calls[k].op = "pick" => IssuedFor(calls[k], {"pending"})
        /\ calls[k].op = "done" => IssuedFor(calls[k], {"pending", "in_progress"})

StatusNeverGoesBack ==
    \A p \in DOMAIN file : \A i \in 1..Len(file[p]) :
        /\ p \in DOMAIN file'
        /\ i \in 1..Len(file'[p])
        /\ Rank(file'[p][i].status) >= Rank(file[p][i].status)

\* C8: over any sequence of cycles, mark-picked is issued only for tasks
\* parsed as pending and mark-done only for tasks parsed as pending or
\* in_progress, and no status in the document ever moves back from done or
\* from in_progress.
C8_EngineNeverReverts ==
    [](CallsFollowOrder) /\ [][file' # file => StatusNeverGoesBack]_vars

\* a completed cycle of a phase that also holds a task already done
C8_Witness ==
    /\ pc = "exit"
    /\ status = "complete"
    /\ \E k \in 1..Len(calls) : calls[k].op = "pick" /\ calls[k].ok
    /\ \E k \in 1..Len(calls) : calls[k].op = "done" /\ calls[k].ok
    /\ \E i \in 1..Len(parsed[phase_num]) : parsed[phase_num][i].status = "done"

\* get_next_phase's result as a position in the run: none comes last
NextRank(d) ==
    IF get_next_phase(d) = NoPhase THEN MaxPhase + 1 ELSE get_next_phase(d)

AllDoneUpTo(d, P) == \A m \in DOMAIN d : m <= P => ~Outstanding(d[m])

\* C9: once every task in every phase numbered <= P is done, nextPhase
\* returns no phase number <= P; over sequential cycles the phase number
\* it returns never decreases.
C9_MonotoneForwardProgress ==
    /\ [](LET n == get_next_phase(file)
           IN  \A P \in PhaseNums :
                   AllDoneUpTo(file, P) => (n = NoPhase \/ n > P))
    /\ [][file' # file => NextRank(file') >= NextRank(file)]_vars

\* a cycle completed phase 0 and the next phase is now phase 1
C9_Witness ==
    /\ pc = "exit"
    /\ status = "complete"
    /\ phase_num = 0
    /\ get_next_phase(parsed) = 0
    /\ get_next_phase(file) = 1

OutcomeFromOutput ==
    /\ launches = 1
    /\ proc = "exited"
    /\ read_back
    /\ dpc = "finally" => output = capture

OutcomeWithoutOutput ==
    /\ ~read_back
    /\ output = <<>>
    /\ \/ status = "blocked" /\ reason = ReasonInterrupted
       \/ status = "error" /\ reason = ReasonException

C11_InterruptAlwaysBlocked ==
    (interrupted /\ dpc \in {"finally", "returned", "raised"}) =>
        /\ dpc # "raised"
        /\ status = "blocked"
        /\ reason = ReasonInterrupted

RECURSIVE IsSubseq(_, _)
IsSubseq(l, t) ==
    IF l = <<>> THEN TRUE
    ELSE IF t = <<>> THEN FALSE
    ELSE IF Head(l) = Head(t) THEN IsSubseq(Tail(l), Tail(t))
    ELSE IsSubseq(l, Tail(t))

AllOfStatus(l, st) == \A i \in 1..Len(l) : l[i].status = st

StatusesOf(t) == [i \in 1..Len(t) |-> t[i].status]

\* C13: get_phase_status partitions the tasks of a phase: each returned list
\* holds only tasks of its status, the three lengths sum to the number of
\* tasks, and each list keeps the document order; for the statuses
\* [done, done, pending, in_progress] the counts are 2, 1 and 1.
C13_StatusPartition ==
    pc = "counted" =>
        LET t == parsed[phase_num]
            r == phase_status
        IN  /\ AllOfStatus(r.completed, "done")
            /\ AllOfStatus(r.pending, "pending")
            /\ AllOfStatus(r.in_progress, "in_progress")
            /\ Len(r.completed) + Len(r.pending) + Len(r.in_progress) = Len(t)
            /\ IsSubseq(r.completed, t)
            /\ IsSubseq(r.pending, t)
            /\ IsSubseq(r.in_progress, t)
            /\ StatusesOf(t) = <<"done", "done", "pending", "in_progress">> =>
                   /\ Len(r.completed) = 2
                   /\ Len(r.pending) = 1
                   /\ Len(r.in_progress) = 1

\* the phase [done, done, pending, in_progress], its two done tasks with
\* different identifiers and in document order
C13_Witness ==
    /\ pc = "counted"
    /\ StatusesOf(parsed[phase_num]) = <<"done", "done", "pending", "in_progress">>
    /\ parsed[phase_num][1].id = "b"
    /\ parsed[phase_num][2].id = "a"
    /\ phase_status.completed = <<parsed[phase_num][1], parsed[phase_num][2]>>

\* a phase was asked for by number and the document has no such phase
RequestedMissing == args.phase # NoPhase /\ args.phase \notin DOMAIN parsed

\* no phase of the parsed document has a pending or in-progress task
NoOutstandingWork == \A m \in DOMAIN parsed : ~HasWork(parsed[m])

\* the phase selected has no pending and no in-progress task
SelectedHasNoWork == phase_num \in DOMAIN parsed /\ ~HasWork(parsed[phase_num])

\* C14 as stated: when the requested phase number does not exist in the
\* document, or no phase has outstanding work, or the selected phase has no
\* pending or in-progress task, the invocation ends with nothing to run: the
\* agent is not launched, no mutation call is issued and no run record is
\* persisted.
C14_NothingToRun ==
    (pc # "idle" /\ (RequestedMissing \/ NoOutstandingWork \/ SelectedHasNoWork)) =>
        /\ pc = "exit" =>
               printed \in {"All phases complete!", "not found", "already complete!"}
        /\ launches = 0
        /\ dpc = "none"
        /\ calls = <<>>
        /\ saved = {}

\* C15 as stated: once a cycle has started executing a phase, no failure in
\* the execution and outcome path (agent launch failure, non-zero exit,
\* interruption, failing pick or done call, failing export) goes past the
\* cycle boundary: main() never ends by an uncaught exception.
C15_NoFaultPastCycle ==
    pc # "idle" => (pc # "crashed" /\ fault = "")

\* the lines of the log about the call c
LoggedFor(c) == \E j \in 1..Len(log) : log[j] = [op |-> c.op, id |-> c.id]

\* the tasks with an identifier that a loop of main() walks
Identified(list) == SelectSeq(list, LAMBDA t : t.id # "")

\* the calls of one kind issued so far
CallsOf(op) == SelectSeq(calls, LAMBDA c : c.op = op)

\* C16 as stated: when a pick or done call fails for one task, the failure
\* is logged for that task and the call is still issued for every remaining
\* task of the batch.
C16_FailureLoggedBatchGoesOn ==
    /\ \A k \in 1..Len(calls) : ~calls[k].ok => LoggedFor(calls[k])
    /\ fault = FaultRunCru =>
           /\ Len(CallsOf("pick")) = Len(Identified(PickList(parsed[phase_num])))
           /\ status = "complete" =>
                  Len(CallsOf("done")) = Len(Identified(DoneList(parsed[phase_num])))

\* document d has the phases and the task lines of document e
SameTasks(d, e) ==
    /\ DOMAIN d = DOMAIN e
    /\ \A p \in DOMAIN d : Len(d[p]) = Len(e[p])

\* what an invocation that ended by a signal or an exception leaves in the
\* document, against what it had parsed
LeftReconcilable ==
    LET d == file
        n == phase_num
    IN  /\ SameTasks(d, parsed)
        /\ \A p \in DOMAIN d : \A i \in 1..Len(d[p]) :
               /\ d[p][i].status \in Statuses
               /\ parsed[p][i].status = "done" => d[p][i].status = "done"
        /\ (/\ Outstanding(d[n])
            /\ \A m \in DOMAIN d : m < n => ~Outstanding(d[m]))
               => get_next_phase(d) = n

\* C17: when an invocation is interrupted between its mutation calls, with
\* some tasks of the phase marked and others not, the next invocation parses
\* every task as done, in_progress or pending, no task that was done is
\* parsed as not done, and get_next_phase selects the same phase again as
\* long as one of its tasks is not done and all lower phases are done.
C17_PartialStateReconciled ==
    /\ [](pc = "crashed" => LeftReconcilable)
    /\ [][pc = "crashed" => file' = file]_vars
    /\ [][(pc = "idle" /\ pc' # "idle") =>
             /\ parsed' = file
             /\ args'.phase = NoPhase => phase_num' = get_next_phase(file)]_vars

\* interrupted in the pick loop of a phase with two identified pending tasks:
\* one is in progress, the other still pending, and the phase is next again
C17_Witness ==
    /\ pc = "crashed"
    /\ fault = FaultInterrupt
    /\ Len(calls) = 1
    /\ Len(Identified(PickList(parsed[phase_num]))) = 2
    /\ \E i, j \in 1..Len(file[phase_num]) :
          /\ file[phase_num][i].status = "in_progress"
          /\ parsed[phase_num][i].status = "pending"
          /\ file[phase_num][j].status = "pending"
    /\ get_next_phase(file) = phase_num

\* the artifacts of the record that are due, as a set
DueArtifacts == {Artifacts[i] : i \in {j \in 1..Len(Artifacts) : Due(Artifacts[j])}}

\* C18 as stated: RunExport.save writes the artifacts independently: when
\* the write of one artifact fails, every other artifact that is due is
\* still written.
C18_ArtifactsIndependent ==
    (pc = "crashed" /\ fault = FaultSave) =>
        \A a \in DueArtifacts \ {Artifacts[idx]} : a \in saved

\* C19 as stated: the document snapshot saved with a cycle's record is the
\* task document as it was at cycle start, before any pick or done mutation
\* of the cycle and before the agent ran, whatever the outcome.
C19_SnapshotAtCycleStart ==
    "TASKS_snapshot.md" \in saved => snapshot = parsed

\* every loaded record has duration_seconds 0
AllDurationsZero == \A i \in 1..Len(runs) : runs[i].duration_seconds = 0

\* the report has a line with this text, and the value it shows
HasLine(text) == \E i \in 1..Len(report) : report[i].text = text

ShowsZero(text) ==
    \E i \in 1..Len(report) :
        report[i].text = text /\ report[i].num = 0 /\ report[i].den # 0

Summarized == pc \in {"summarized", "crashed"}

\* C20 as stated: over zero records summarize_runs reports "no runs found"
\* and does no arithmetic; over N >= 1 records whose duration_seconds are all
\* 0 the average time per task and the average tokens per phase are reported
\* as zero and no division error occurs.
C20_ZeroAveragesReported ==
    Summarized =>
        /\ runs = <<>> => report = <<LineNoRuns>>
        /\ (runs # <<>> /\ AllDurationsZero) =>
               /\ fault = ""
               /\ ShowsZero("Avg time per task")
               /\ ShowsZero("Avg tokens per phase")

\* C20 as amended: over zero records the report is "no runs found" alone;
\* over N >= 1 records whose duration_seconds are all 0 the totals are
\* reported, neither average is reported and no division error occurs; an
\* average that is reported never has the divisor 0.
C20_AveragesLeftOut ==
    Summarized =>
        /\ fault = ""
        /\ runs = <<>> => report = <<LineNoRuns>>
        /\ (runs # <<>> /\ AllDurationsZero) =>
               /\ HasLine("Total duration")
               /\ ~HasLine("Avg time per task")
               /\ ~HasLine("Avg tokens per phase")
        /\ \A i \in 1..Len(report) : report[i].den # 0

\* two records with duration 0, tasks attempted and prompt tokens: the totals
\* are printed and the averages are not
C20_Witness ==
    /\ pc = "summarized"
    /\ Len(runs) = 2
    /\ AllDurationsZero
    /\ SumOf(runs, "tasks_pending") > 0
    /\ SumOf(runs, "prompt_tokens_est") > 0
    /\ report = Totals(runs)

\* the metadata block is not a well-formed key-to-value mapping: safe_load
\* raises on it, or loads something other than a dict
Malformed(b) == SafeLoad(b).raised \/ SafeLoad(b).value.kind # "dict"

\* C21: for every content of the leading metadata block that is not a
\* well-formed key-to-value mapping (unparseable, or parsing to a scalar or a
\* list), parsing and prompt compilation go on as with an empty mapping: no
\* error is raised and the defaults are used.
C21_MalformedBlockIsEmpty ==
    (pc # "frontmatter" /\ Malformed(block)) =>
        /\ frontmatter = EmptyDict
        /\ fault = ""
        /\ pc = "compiled" =>
              /\ title = "Unknown"
              /\ verify_command = "just test"
              /\ tdd_enabled = "False"

\* the part made for the k-th listed file, once the loop has passed it
PartOf(k) == parts[k].body

\* C22: a context file of length L is inlined unchanged when L <= 5000, and
\* as exactly its first 5000 characters followed by the truncation marker
\* when L > 5000; a listed file that does not exist gives the "(File not
\* found)" placeholder and no exception, and the files listed after it are
\* still processed.
C22_CeilingAndPlaceholder ==
    /\ fault = ""
    /\ context_files # <<>> =>
          /\ Len(parts) = IF pc = "joined" THEN Len(context_files) ELSE idx - 1
          /\ \A k \in 1..Len(parts) :
                LET f == context_files[k]
                IN  /\ ~f.exists => PartOf(k) = <<"(File not found)">>
                    /\ (f.exists /\ f.readable /\ f.len <= 5000) =>
                          /\ Len(PartOf(k)) = f.len
                          /\ \A i \in 1..f.len : PartOf(k)[i] = ContentOf(f.len)[i]
                    /\ (f.exists /\ f.readable /\ f.len > 5000) =>
                          /\ Len(PartOf(k)) = 5001
                          /\ PartOf(k)[5001] = "\n... (truncated)"
                          /\ \A i \in 1..5000 : PartOf(k)[i] = ContentOf(f.len)[i]

\* an absent file listed first and a file over the ceiling after it, both read
C22_Witness ==
    /\ pc = "joined"
    /\ Len(context_files) = 2
    /\ ~context_files[1].exists
    /\ context_files[2].readable /\ context_files[2].len = 5001
    /\ Len(parts) = 2
    /\ Len(parts[2].body) = 5001

\* line k lies in the body of a task line above it: every line from that
\* task line down to k has one of the forms F
InBody(k, F) ==
    \E t \in 1..(k - 1) :
        /\ classes[t] = "task"
        /\ \A n \in (t + 1)..k : lines[n].form \in F

\* line k, which is in no body, was taken as what its form says
TakenNormally(k) ==
    CASE lines[k].form = "phase" -> classes[k] = "phase"
      [] lines[k].form \in {"section", "task"} ->
            classes[k] = IF \E n \in 1..(k - 1) : lines[n].form = "phase"
                         THEN lines[k].form ELSE "none"
      [] OTHER -> classes[k] \in {"description", "none"}

\* every line passed was taken exactly once, the lines of form F after a
\* task line as its body and every other line as what its form says
BodiesAre(F) ==
    /\ Len(classes) = idx - 1
    /\ \A k \in 1..Len(classes) :
          IF InBody(k, F) THEN classes[k] = "body"
          ELSE classes[k] # "body" /\ TakenNormally(k)

LastTaskLine == CHOOSE t \in 1..Len(classes) :
                    classes[t] = "task" /\ \A n \in (t + 1)..Len(classes) : classes[n] # "task"

HeaderOf(p) ==
    CHOOSE h \in 1..Len(lines) :
        /\ lines[h] = [form |-> "phase", num |-> p]
        /\ \A k \in (h + 1)..Len(lines) : lines[k] # lines[h]

\* the lines from phase p's header down to its first section header (or to
\* the next phase header, or to the end) that are not blank, not a header,
\* and neither a task line nor in a task's body
DescriptionLines(p) ==
    LET h == HeaderOf(p)
        stops == {k \in (h + 1)..Len(lines) : lines[k].form \in {"phase", "section"}}
        stop == IF stops = {} THEN Len(lines) + 1
                ELSE CHOOSE k \in stops : \A m \in stops : k <= m
    IN  SelectSeq([n \in 1..(stop - h - 1) |-> h + n],
                  LAMBDA k : /\ lines[k].form \in {"text", "indented", "tabbed"}
                             /\ classes[k] # "body")

\* C24: for every phase of the document, also one that follows a phase with
\* section headers, each non-blank, non-header line between the phase's
\* header and its first section header is appended to that phase's
\* description, and to no other phase's.
C24_DescriptionOfEveryPhase ==
    pc = "parsed" =>
        \A p \in DOMAIN phases :
            phases[p].description =
                [n \in 1..Len(DescriptionLines(p)) |-> lines[DescriptionLines(p)[n]]]

\* the number of tasks of the selected phase, as parsed at cycle start, that
\* bear the identifier id and have one of the statuses sts
TasksAtStart(id, sts) ==
    Len(SelectSeq(parsed[phase_num], LAMBDA t : t.id = id /\ t.status \in sts))

\* the number of calls of kind op issued so far for the identifier id
Issued(op, id) == Len(SelectSeq(calls, LAMBDA c : c.op = op /\ c.id = id))

\* C25: in a cycle that is no dry run the calls are issued one task at a
\* time in this order: one pick for each identified task pending at cycle
\* start, all before the agent is launched; then, only after a complete
\* outcome, one done for each identified task pending or in progress at
\* cycle start, all after the agent has exited; no task gets two calls of
\* one kind.
C25_CallsOneByOneInOrder ==
    (pc # "idle" /\ phase_num \in DOMAIN parsed) =>
        /\ \A n \in 1..Len(calls) : calls[n].id # ""
        /\ \A m, n \in 1..Len(calls) :
              (m < n /\ calls[m].op = "done") => calls[n].op = "done"
        /\ \A id \in Ids \ {""} :
              LET picks   == Issued("pick", id)
                  dones   == Issued("done", id)
                  pending == TasksAtStart(id, {"pending"})
                  open    == TasksAtStart(id, {"pending", "in_progress"})
              IN  /\ picks <= pending
                  /\ dones <= open
                  /\ launches > 0 => picks = pending
                  /\ (pc = "exit" /\ dpc = "returned") =>
                        dones = IF status = "complete" THEN open ELSE 0
        /\ (\E n \in 1..Len(calls) : calls[n].op = "done") =>
              status = "complete" /\ launches = 1 /\ proc = "exited"

\* a complete cycle on a phase with one pending and one in-progress task,
\* both identified: one pick, then two dones
C25_Witness ==
    /\ pc = "exit"
    /\ status = "complete"
    /\ Len(calls) = 3
    /\ calls[1].op = "pick" /\ calls[2].op = "done" /\ calls[3].op = "done"
    /\ calls[2].id # calls[3].id

\* the places (phase, position) of the done tasks of the parsed document
DonePlaces ==
    {pl \in (DOMAIN parsed) \X (1..(MaxTasks + 1)) :
        /\ pl[2] <= Len(parsed[pl[1]])
        /\ parsed[pl[1]][pl[2]].status = "done"}

\* C26: previous_phases_tasks of a cycle's record is the number of done
\* tasks summed over exactly the phases whose number is strictly lower than
\* the phase being run; tasks of that phase and of higher phases are never
\* counted.
C26_PreviousPhasesOnly ==
    metrics # NoMetrics =>
        metrics.previous_phases_tasks =
            Cardinality({pl \in DonePlaces : pl[1] < phase_num})

\* a record for phase 1 that counts the done task of phase 0
C26_Witness ==
    /\ metrics # NoMetrics
    /\ phase_num = 1
    /\ metrics.previous_phases_tasks = 1
    /\ \E pl \in DonePlaces : pl[1] = 0

\* C28: every record a cycle creates has tasks_total = tasks_pending +
\* tasks_completed_before and tasks_pending >= 1: a record is created only
\* for a phase with outstanding work.
C28_RecordAddsUp ==
    metrics # NoMetrics =>
        /\ phase_num \in DOMAIN parsed
        /\ metrics.tasks_total = Len(parsed[phase_num])
        /\ metrics.tasks_total = metrics.tasks_pending + metrics.tasks_completed_before
        /\ metrics.tasks_pending >= 1

\* a record for a phase with one task done and one in progress
C28_Witness ==
    /\ metrics # NoMetrics
    /\ metrics.tasks_total = 2
    /\ metrics.tasks_pending = 1
    /\ metrics.tasks_completed_before = 1
    /\ \E k \in 1..2 : parsed[phase_num][k].status = "in_progress"

\* the number of complete outcomes of the session so far
CompleteOutcomes ==
    Cardinality({k \in 1..Len(outcomes) : outcomes[k].status = "complete"})

\* C27: the task loop of task-runner.py launches the agent for a task only
\* after the pick call for that task succeeded; it stops at the first task
\* whose outcome is not complete, after issuing the blocked call for that
\* task with the reason: no further task is fetched or run in the session,
\* and the session's completed count is the number of complete outcomes.
C27_LoopStopsAtFirstFailure ==
    /\ [][launches' > launches =>
             /\ calls # <<>>
             /\ calls[Len(calls)] = [op |-> "pick", id |-> task_id, ok |-> TRUE,
                                     reason |-> ""]
             /\ outcomes'[Len(outcomes')].id = task_id]_vars
    /\ [](\A k \in 1..(Len(outcomes) - 1) : outcomes[k].status = "complete")
    /\ []((/\ outcomes # <<>>
           /\ outcomes[Len(outcomes)].status # "complete"
           /\ pc # "outcome") =>
              /\ pc \in {"end", "crashed"}
              /\ calls[Len(calls)].op = "blocked"
              /\ calls[Len(calls)].id = outcomes[Len(outcomes)].id
              /\ calls[Len(calls)].reason # "")
    /\ [](\A n \in 1..(Len(calls) - 1) : calls[n].op # "blocked")
    /\ [](pc \in {"fetch", "task", "run", "end"} => completed = CompleteOutcomes)

\* a session that completed one task and stopped at the second, blocked
C27_Witness ==
    /\ pc = "end"
    /\ completed = 1
    /\ Len(outcomes) = 2
    /\ outcomes[2].status = "blocked"
    /\ calls[Len(calls)].op = "blocked"
    /\ file[outcomes[2].id] = "blocked"

\* a cycle that ran the phase get_next_phase returned, ended with the outcome
\* complete, and whose mutation calls all succeeded, at its return statement
CycleCompleteAllOk ==
    /\ pc = "exit"
    /\ printed = "completed!"
    /\ phase_num = get_next_phase(parsed)
    /\ \A n \in 1..Len(calls) : calls[n].ok

\* C29 as stated: a cycle that runs the phase returned by get_next_phase, ends
\* with the outcome complete and has all its mutation calls succeed leaves no
\* task of its phase outstanding, so the next cycle selects a strictly higher
\* phase (or none), and the phases run out after finitely many cycles.
C29_CompleteCycleClearsPhase ==
    CycleCompleteAllOk =>
        /\ ~HasWork(file[phase_num])
        /\ get_next_phase(file) = NoPhase \/ get_next_phase(file) > phase_num

\* C30 as stated: when a specific phase number is requested, the cycle
\* operates on exactly that phase, for every phase number a phase header can
\* carry, 0 included; the phase get_next_phase would choose plays no part.
C30_RequestedPhaseIsRun ==
    (pc # "idle" /\ args.phase # NoPhase) => phase_num = args.phase

====
